---- MODULE Spec2Model ----
\* PPTExtractor.py: extraction of embedded pictures from PowerPoint files.
\* The model follows PowerPointFormat, PPT, PPTX and PPTExtractor() of
\* src/PPTExtractor.py.  Stream data is represented by position ranges
\* <<from, to>> (the bytes from..to-1 of the stream they were read from);
\* only the 8-byte record headers are materialised as bytes, since they are
\* the only bytes the program interprets.
EXTENDS Integers, Sequences, FiniteSets, TLC

VARIABLES file, status, error, cls, files, cursor, ret, gen, genIndex, yielded

vars == <<file, status, error, cls, files, cursor, ret, gen, genIndex, yielded>>

----------------------------------------------------------------------------
\* Bounds of the model

MaxRecords == 2
MaxEntries == 2

----------------------------------------------------------------------------
\* Module constants

CHUNK == 65536

headerlen == 8

formats ==
    (<<61466, 15680>> :> <<50, ".emf">>) @@
    (<<61466, 15696>> :> <<66, ".emf">>) @@
    (<<61467, 8544>> :> <<50, ".wmf">>) @@
    (<<61467, 8560>> :> <<66, ".wmf">>) @@
    (<<61468, 21536>> :> <<50, ".pict">>) @@
    (<<61468, 21552>> :> <<50, ".pict">>) @@
    (<<61469, 18080>> :> <<17, ".jpeg">>) @@
    (<<61469, 28192>> :> <<17, ".jpeg">>) @@
    (<<61469, 18096>> :> <<33, ".jpeg">>) @@
    (<<61469, 28208>> :> <<33, ".jpeg">>) @@
    (<<61470, 28160>> :> <<17, ".png">>) @@
    (<<61470, 28176>> :> <<33, ".png">>) @@
    (<<61471, 31360>> :> <<17, ".dib">>) @@
    (<<61471, 31376>> :> <<33, ".dib">>) @@
    (<<61481, 28224>> :> <<17, ".tiff">>) @@
    (<<61481, 28240>> :> <<33, ".tiff">>)

\* Python's None
None == << >>

\* formats.get(key): the entry, or None for an absent key
FormatsGet(key) == IF key \in DOMAIN formats THEN formats[key] ELSE None

----------------------------------------------------------------------------
\* The Pictures stream: records laid end to end, cut short by file.cut bytes.
\* A record is [recType, recInstance, recLen]: an 8-byte little-endian header
\* "<HHL" (instance, type, length) followed by recLen body bytes.

Min(a, b) == IF a < b THEN a ELSE b

LE16(v) == << v % 256, (v \div 256) % 256 >>

LE32(v) == << v % 256, (v \div 256) % 256, (v \div 65536) % 256, (v \div 16777216) % 256 >>

HeaderBytes(rec) == LE16(rec.recInstance) \o LE16(rec.recType) \o LE32(rec.recLen)

RECURSIVE RecStart(_, _)
RecStart(recs, i) == IF i <= 1 THEN 0
                     ELSE RecStart(recs, i - 1) + headerlen + recs[i - 1].recLen

TotalLen(recs) == RecStart(recs, Len(recs) + 1)

StreamLen(f) == TotalLen(f.recs) - f.cut

\* the byte at position p (0-based) of the uncut record sequence;
\* body bytes are opaque picture data, here a function of the position
ByteAt(recs, p) ==
    LET i == CHOOSE j \in 1..Len(recs) : RecStart(recs, j) <= p /\ p < RecStart(recs, j + 1)
        d == p - RecStart(recs, i)
    IN  IF d < headerlen THEN HeaderBytes(recs[i])[d + 1] ELSE p % 256

\* the bytes of the range r of the stream of file f
Bytes(f, r) == [k \in 1..(r[2] - r[1]) |-> ByteAt(f.recs, r[1] + k - 1)]

\* stream.read(n), n > 0, of a BytesIO-backed stream at position pos:
\* the range of bytes returned (empty at or past the end)
Read(f, pos, n) == IF pos >= StreamLen(f) THEN <<pos, pos>>
                   ELSE <<pos, Min(pos + n, StreamLen(f))>>

RangeLen(r) == r[2] - r[1]

\* stream.seek(offset, whence): the new position
Seek(pos, offset, whence) == IF whence = 0 THEN offset ELSE pos + offset

\* struct.unpack_from("<HHL", header)
U16(b, i) == b[i] + 256 * b[i + 1]

U32(b, i) == b[i] + 256 * b[i + 1] + 65536 * b[i + 2] + 16777216 * b[i + 3]

Unpack(header) == [recInstance |-> U16(header, 1), recType |-> U16(header, 3), recLen |-> U32(header, 5)]

----------------------------------------------------------------------------
\* Python list indexing

\* l[i]: valid for -len(l) <= i < len(l), negative i counting from the end
ListInRange(l, i) == -Len(l) <= i /\ i < Len(l)

ListGet(l, i) == IF i >= 0 THEN l[i + 1] ELSE l[Len(l) + i + 1]

\* l[i] = x
ListSetItem(l, i, x) == IF i >= 0 THEN [l EXCEPT ![i + 1] = x]
                        ELSE [l EXCEPT ![Len(l) + i + 1] = x]

\* range(1, n + 1) in place of range(n)
RangeFromOne(n) == [k \in 1..n |-> k]

\* range(n)
Range(n) == [k \in 1..n |-> k - 1]

----------------------------------------------------------------------------
\* PPT._process

\* the end-of-input test left out
EndOfInputMissing(header) == FALSE

\* "if not header: break"
EndOfInput(header) == Len(header) = 0

\* the sub-header not skipped
PayloadOffsetKeepsSubHeader(offset, extrabytes) == offset

\* "offset += extrabytes": the payload starts after the sub-header
PayloadOffset(offset, extrabytes) == offset + extrabytes

RECURSIVE ScanLoop(_, _, _, _)
ScanLoop(f, pos, offset, fl) ==
    LET hr     == Read(f, pos, headerlen)
        header == Bytes(f, hr)
        pos1   == hr[2]
        off1   == offset + headerlen
    IN  IF EndOfInput(header)
        THEN [files |-> fl, cursor |-> pos1, error |-> "none"]
        ELSE IF Len(header) < headerlen
        THEN [files |-> fl, cursor |-> pos1, error |-> "struct.error"]
        ELSE LET h    == Unpack(header)
                 pos2 == Seek(pos1, h.recLen, 1)
                 got  == FormatsGet(<<h.recType, h.recInstance>>)
             IN  IF Len(got) = 0
                 THEN [files |-> fl, cursor |-> pos2, error |-> "TypeError"]
                 ELSE LET extrabytes == got[1]
                          recLen     == h.recLen - extrabytes
                          off2       == PayloadOffset(off1, extrabytes)
                      IN  ScanLoop(f, pos2, off2 + recLen, Append(fl, <<off2, recLen>>))

PPT_process(f) ==
    IF ~f.exists
    THEN [files |-> << >>, cursor |-> 0, error |-> "none"]
    ELSE ScanLoop(f, 0, 0, << >>)

----------------------------------------------------------------------------
\* PPT._extract

\* the tail of _extract: "if total < size: read(size - total)"
ExtractTail(f, pos, total, size, out, reads) ==
    IF total < size
    THEN LET r == Read(f, pos, size - total)
         IN  [data |-> Append(out, r), reads |-> Append(reads, size - total), cursor |-> r[2]]
    ELSE [data |-> out, reads |-> reads, cursor |-> pos]

RECURSIVE ExtractLoop(_, _, _, _, _, _)
ExtractLoop(f, pos, total, size, out, reads) ==
    IF total + CHUNK < size
    THEN LET r == Read(f, pos, CHUNK)
         IN  IF RangeLen(r) = 0
             THEN ExtractTail(f, r[2], total, size, out, Append(reads, CHUNK))
             ELSE ExtractLoop(f, r[2], total + RangeLen(r), size,
                              Append(out, r), Append(reads, CHUNK))
    ELSE ExtractTail(f, pos, total, size, out, reads)

PPT_extract(f, fl, pos, index) ==
    IF index >= Len(fl)
    THEN [outcome |-> "IOError", src |-> << >>, data |-> << >>, reads |-> << >>, cursor |-> pos]
    ELSE IF ~ListInRange(fl, index)
    THEN [outcome |-> "IndexError", src |-> << >>, data |-> << >>, reads |-> << >>, cursor |-> pos]
    ELSE LET d == ListGet(fl, index)
             e == ExtractLoop(f, Seek(pos, d[1], 0), 0, d[2], << >>, << >>)
         IN  [outcome |-> "ok", src |-> <<"Pictures">>, data |-> e.data,
              reads |-> e.reads, cursor |-> e.cursor]

----------------------------------------------------------------------------
\* PPTX: an archive is a listing of entry names, each name a sequence of
\* tokens ("/" or a path segment free of "/"), and the decompressed size of
\* each entry.

MediaPath == <<"ppt", "/", "media">>

RECURSIVE RStripSlash(_)
RStripSlash(s) == IF Len(s) > 0 /\ s[Len(s)] = "/" THEN RStripSlash(SubSeq(s, 1, Len(s) - 1)) ELSE s

\* os.path.split(name): <<head, tail>>, split at the last "/"
PathSplit(name) ==
    LET slashes == {k \in 1..Len(name) : name[k] = "/"}
        i       == IF slashes = {} THEN 0 ELSE CHOOSE k \in slashes : \A m \in slashes : m <= k
        head    == SubSeq(name, 1, i)
        tail    == SubSeq(name, i + 1, Len(name))
    IN  IF Len(head) > 0 /\ (\E k \in 1..Len(head) : head[k] # "/")
        THEN <<RStripSlash(head), tail>>
        ELSE <<head, tail>>

RECURSIVE PPTXLoop(_, _, _, _)
PPTXLoop(names, k, fl, n) ==
    IF k > Len(names)
    THEN [files |-> fl, cursor |-> 0, error |-> "none"]
    ELSE IF PathSplit(names[k])[1] = MediaPath
    THEN IF ListInRange(fl, n)
         THEN PPTXLoop(names, k + 1, ListSetItem(fl, n, names[k]), n + 1)
         ELSE [files |-> fl, cursor |-> 0, error |-> "IndexError"]
    ELSE PPTXLoop(names, k + 1, fl, n)

PPTX_process(f) == PPTXLoop(f.names, 1, << >>, 1)

\* ZipFile.open(name): the entry of that name (the last one listed wins)
ZipEntry(f, name) == CHOOSE k \in 1..Len(f.names) :
                         f.names[k] = name /\ \A m \in 1..Len(f.names) : f.names[m] = name => m <= k

\* "while True: data = file.read(CHUNK) ..." over an entry of the given size
RECURSIVE ZipReadLoop(_, _, _, _)
ZipReadLoop(size, pos, out, reads) ==
    LET r == IF pos >= size THEN <<pos, pos>> ELSE <<pos, Min(pos + CHUNK, size)>>
    IN  IF RangeLen(r) = 0
        THEN [data |-> out, reads |-> Append(reads, CHUNK)]
        ELSE ZipReadLoop(size, r[2], Append(out, r), Append(reads, CHUNK))

PPTX_extract(f, fl, pos, index) ==
    IF index >= Len(fl)
    THEN [outcome |-> "IOError", src |-> << >>, data |-> << >>, reads |-> << >>, cursor |-> pos]
    ELSE IF ~ListInRange(fl, index)
    THEN [outcome |-> "IndexError", src |-> << >>, data |-> << >>, reads |-> << >>, cursor |-> pos]
    ELSE LET name == ListGet(fl, index)
             e    == ZipReadLoop(f.sizes[ZipEntry(f, name)], 0, << >>, << >>)
         IN  [outcome |-> "ok", src |-> name, data |-> e.data,
              reads |-> e.reads, cursor |-> pos]

----------------------------------------------------------------------------
\* PowerPointFormat

\* self._extract(index), dispatched on the class of the instance
DoExtract(index) == IF cls = "PPT" THEN PPT_extract(file, files, cursor, index)
                    ELSE PPTX_extract(file, files, cursor, index)

NoRet == [index |-> 0, outcome |-> "none", src |-> << >>, data |-> << >>, reads |-> << >>]

\* the content of a BytesIO after the writes in out: empty writes add
\* nothing and consecutive writes of adjoining ranges join
RECURSIVE Content(_)
Content(out) ==
    IF Len(out) = 0 THEN << >>
    ELSE LET rest == Content(Tail(out))
             r    == Head(out)
         IN  IF RangeLen(r) = 0 THEN rest
             ELSE IF Len(rest) > 0 /\ rest[1][1] = r[2]
             THEN <<(<<r[1], rest[1][2]>>)>> \o Tail(rest)
             ELSE <<r>> \o rest

RECURSIVE ContentLen(_)
ContentLen(out) == IF Len(out) = 0 THEN 0 ELSE RangeLen(Head(out)) + ContentLen(Tail(out))

----------------------------------------------------------------------------
\* Input files

PNG == <<61470, 28160>>

EMF == <<61466, 15696>>

\* a record type that is not a picture (OfficeArtFOPT)
FOPT == <<61451, 0>>

RecordKeys == {PNG, EMF, FOPT}

\* payload sizes: below, at and above multiples of CHUNK
SmallPayloads == {0, 1, CHUNK}

LargePayloads == {CHUNK + 1, 2 * CHUNK + 1}

\* declared lengths tried for a record of the given key: sub-header plus
\* payload, a length below the sub-header size, and a short foreign record
RecordLens(key) == IF key = PNG THEN {formats[key][1] + n : n \in SmallPayloads}
                   ELSE IF key = EMF THEN {0} \cup {formats[key][1] + n : n \in LargePayloads}
                   ELSE {5}

Records == UNION {{[recType |-> key[1], recInstance |-> key[2], recLen |-> l] :
                      l \in RecordLens(key)} : key \in RecordKeys}

RecordSeqs == UNION {[1..n -> Records] : n \in 0..MaxRecords}

\* bytes missing at the end of the stream
Cuts == {0, 1, CHUNK + 1}

EntryNames == { <<"ppt", "/", "media", "/", "image1.png">>,
                <<"ppt", "/", "media", "/", "image2.jpeg">>,
                <<"other", "/", "file.txt">>,
                <<"ppt", "/", "media", "/", "sub", "/", "x.png">>,
                <<"[Content_Types].xml">> }

EntrySizes == {0, CHUNK + 1}

OleFiles ==
    {[kind |-> "ole", exists |-> FALSE, recs |-> << >>, cut |-> 0, names |-> << >>, sizes |-> << >>]}
    \cup
    {[kind |-> "ole", exists |-> TRUE, recs |-> rs, cut |-> c, names |-> << >>, sizes |-> << >>] :
        rs \in RecordSeqs, c \in Cuts}

ZipFiles ==
    UNION {{[kind |-> "zip", exists |-> FALSE, recs |-> << >>, cut |-> 0, names |-> ns, sizes |-> sz] :
               ns \in [1..n -> EntryNames], sz \in [1..n -> EntrySizes]} : n \in 0..MaxEntries}

OtherFiles ==
    {[kind |-> "other", exists |-> FALSE, recs |-> << >>, cut |-> 0, names |-> << >>, sizes |-> << >>]}

Init ==
    /\ file \in {f \in OleFiles : f.cut <= TotalLen(f.recs)} \cup ZipFiles \cup OtherFiles
    /\ status = "new"
    /\ error = "none"
    /\ cls = "none"
    /\ files = << >>
    /\ cursor = 0
    /\ ret = NoRet
    /\ gen = "none"
    /\ genIndex = 1
    /\ yielded = << >>

----------------------------------------------------------------------------
\* Operations

\* PPTExtractor(file): the first class whose is_valid_format accepts the
\* file is instantiated; __init__ sets _files = [] and runs _process
PPTExtractor ==
    /\ status = "new"
    /\ LET c == IF file.kind = "ole" THEN "PPT" ELSE IF file.kind = "zip" THEN "PPTX" ELSE "none"
           r == IF c = "PPT" THEN PPT_process(file)
                ELSE IF c = "PPTX" THEN PPTX_process(file)
                ELSE [files |-> << >>, cursor |-> 0, error |-> "InvalidFormat"]
       IN  /\ cls' = c
           /\ files' = r.files
           /\ cursor' = r.cursor
           /\ error' = r.error
           /\ status' = IF r.error = "none" THEN "constructed" ELSE "failed"
    /\ UNCHANGED <<file, ret, gen, genIndex, yielded>>

\* extract(index), called by the user
extract ==
    /\ status = "constructed"
    /\ \E index \in -(Len(files) + 1) .. (Len(files) + 1) :
          LET r == DoExtract(index)
          IN  /\ ret' = [index |-> index, outcome |-> r.outcome, src |-> r.src,
                         data |-> r.data, reads |-> r.reads]
              /\ cursor' = r.cursor
    /\ UNCHANGED <<file, status, error, cls, files, gen, genIndex, yielded>>

\* extractall(): a new generator, not yet advanced
extractall ==
    /\ status = "constructed"
    /\ gen' = "running"
    /\ genIndex' = 1
    /\ yielded' = << >>
    /\ UNCHANGED <<file, status, error, cls, files, cursor, ret>>

\* next() on the generator: the next index of range(len(self._files)) is
\* extracted and yielded, or the generator ends
extractallNext ==
    /\ gen = "running"
    /\ LET rng == Range(Len(files))
       IN  IF genIndex > Len(rng)
           THEN /\ gen' = "done"
                /\ UNCHANGED <<genIndex, yielded, cursor>>
           ELSE LET r == DoExtract(rng[genIndex])
                IN  IF r.outcome = "ok"
                    THEN /\ yielded' = Append(yielded, [index |-> rng[genIndex], src |-> r.src,
                                                        data |-> r.data, reads |-> r.reads])
                         /\ genIndex' = genIndex + 1
                         /\ cursor' = r.cursor
                         /\ UNCHANGED gen
                    ELSE /\ gen' = "raised"
                         /\ UNCHANGED <<genIndex, yielded, cursor>>
    /\ UNCHANGED <<file, status, error, cls, files, ret>>

Next == PPTExtractor \/ extract \/ extractall \/ extractallNext

Spec == Init /\ [][Next]_vars

----------------------------------------------------------------------------
\* Reference notions the properties are stated with, taken from the layout
\* of the input file and not from the scan

Recognized(rec) == <<rec.recType, rec.recInstance>> \in DOMAIN formats

Extra(rec) == formats[<<rec.recType, rec.recInstance>>][1]

IsLegacy == file.kind = "ole"

HasStream == IsLegacy /\ file.exists

\* the descriptor <<offset, length>> bounding the payload of record i
PayloadOf(i) == << RecStart(file.recs, i) + headerlen + Extra(file.recs[i]),
                   file.recs[i].recLen - Extra(file.recs[i]) >>

\* the content made of the payload bytes of record i
PayloadContent(i) ==
    LET d == PayloadOf(i)
    IN  IF d[2] > 0 THEN << <<d[1], d[1] + d[2]>> >> ELSE << >>

\* every record is whole and no recognized record is shorter than its sub-header
FramedRecords == /\ HasStream
                 /\ file.cut = 0
                 /\ \A i \in 1..Len(file.recs) :
                       Recognized(file.recs[i]) => file.recs[i].recLen >= Extra(file.recs[i])

\* as FramedRecords, with every record a recognized picture record
PictureRecords == FramedRecords /\ \A i \in 1..Len(file.recs) : Recognized(file.recs[i])

RecognizedIdx == {i \in 1..Len(file.recs) : Recognized(file.recs[i])}

IsMediaName(name) == Len(name) = 5 /\ SubSeq(name, 1, 4) = <<"ppt", "/", "media", "/">>

MediaNames == SelectSeq(file.names, IsMediaName)

----------------------------------------------------------------------------
\* C1: a record whose (type, instance) is not in the format table adds no
\* descriptor and the scan goes on: over well-framed records construction
\* succeeds with one descriptor per recognized record, each bounding the
\* payload of its own record.
C1_UnknownRecordsSkipped ==
    (FramedRecords /\ status # "new") =>
        /\ status = "constructed"
        /\ Len(files) = Cardinality(RecognizedIdx)
        /\ \A i \in RecognizedIdx : \E k \in 1..Len(files) : files[k] = PayloadOf(i)

\* C2: extract(index) succeeds exactly for 0 <= index < len(); any other
\* index fails with IOError "No such file" and returns no data.
C2_ExtractDomain ==
    ret.outcome # "none" =>
        IF 0 <= ret.index /\ ret.index < Len(files)
        THEN ret.outcome = "ok"
        ELSE ret.outcome = "IOError" /\ ret.data = << >>

\* C3: round trip on the legacy path: over a stream of recognized records
\* header + sub-header + payload, construction yields one descriptor per
\* record and extract(i), direct or through extractall, returns exactly the
\* payload bytes of record i.
C3_RoundTrip ==
    (PictureRecords /\ status # "new") =>
        /\ status = "constructed"
        /\ Len(files) = Len(file.recs)
        /\ (ret.outcome = "ok" /\ ret.index >= 0) =>
               Content(ret.data) = PayloadContent(ret.index + 1)
        /\ \A k \in 1..Len(yielded) :
               Content(yielded[k].data) = PayloadContent(yielded[k].index + 1)

\* C3 witness: the second of two records, a payload of more than two chunks,
\* has been extracted
C3_Witness ==
    /\ PictureRecords
    /\ Len(file.recs) = 2
    /\ ret.outcome = "ok"
    /\ ret.index = 1
    /\ ContentLen(ret.data) = 2 * CHUNK + 1

\* C4: the payload offsets of the descriptor list of a constructed legacy
\* Extractor are strictly increasing in scan order.
C4_OffsetsIncreasing ==
    (HasStream /\ status = "constructed") =>
        \A k \in 1..(Len(files) - 1) : files[k][1] < files[k + 1][1]

\* C5: a recognized record declaring a length below its sub-header size
\* makes construction fail, and no descriptor of negative length is ever
\* appended.
C5_NoNegativeLength ==
    HasStream =>
        /\ \A k \in 1..Len(files) : files[k][2] >= 0
        /\ (status = "constructed" /\ file.cut = 0) =>
               \A i \in RecognizedIdx : file.recs[i].recLen >= Extra(file.recs[i])

\* C6: a truncated legacy stream (one ending inside a record) makes
\* construction fail; no descriptor list is exposed that reaches past the
\* end of the stream.
C6_TruncationFails ==
    (HasStream /\ status = "constructed") =>
        /\ \E i \in 1..(Len(file.recs) + 1) : StreamLen(file) = RecStart(file.recs, i)
        /\ \A k \in 1..Len(files) : files[k][1] + files[k][2] <= StreamLen(file)

\* C7: for the package variant construction succeeds for every archive
\* listing, the entries are those directly under ppt/media in listing order,
\* and extract returns the whole decompressed entry.
C7_MediaListed ==
    (file.kind = "zip" /\ status # "new") =>
        /\ status = "constructed"
        /\ files = MediaNames
        /\ (ret.outcome = "ok" /\ ret.index >= 0) =>
               /\ ret.src = MediaNames[ret.index + 1]
               /\ ContentLen(ret.data) = file.sizes[ZipEntry(file, ret.src)]

\* C8: extractall yields exactly len() results, for the indices 0, 1, ...
\* in ascending order, and each equals what a direct extract of that index
\* returns, whatever calls came before or in between.
C8_ExtractAll ==
    /\ gen # "raised"
    /\ Len(yielded) <= Len(files)
    /\ gen = "done" => Len(yielded) = Len(files)
    /\ \A k \in 1..Len(yielded) :
          /\ yielded[k].index = k - 1
          /\ (ret.outcome = "ok" /\ ret.index = k - 1) =>
                 /\ Content(yielded[k].data) = Content(ret.data)
                 /\ yielded[k].src = ret.src

\* C8 witness: the generator has run to its end over two pictures and
\* index 0 was extracted directly after index 1 was yielded
C8_Witness ==
    /\ gen = "done"
    /\ Len(yielded) = 2
    /\ ContentLen(yielded[1].data) > CHUNK
    /\ ContentLen(yielded[2].data) > 0
    /\ ret.outcome = "ok"
    /\ ret.index = 0
    /\ cursor = files[1][1] + files[1][2]

\* C9: an absent Pictures stream, or one with no bytes, is not an error:
\* construction succeeds, len() is 0 and extractall yields nothing.
C9_EmptyPictures ==
    (IsLegacy /\ (~file.exists \/ StreamLen(file) = 0) /\ status # "new") =>
        /\ status = "constructed"
        /\ Len(files) = 0
        /\ yielded = << >>
        /\ gen # "raised"

\* C9 witness: the generator over an existing, empty Pictures stream has ended
C9_Witness ==
    /\ HasStream
    /\ StreamLen(file) = 0
    /\ status = "constructed"
    /\ gen = "done"

\* C10: every read request of the legacy range extraction asks for at most
\* CHUNK bytes, and the output never holds more than the descriptor's length.
C10_BoundedReads ==
    (HasStream /\ ret.outcome = "ok") =>
        /\ \A j \in 1..Len(ret.reads) : ret.reads[j] <= CHUNK
        /\ LET d == ListGet(files, ret.index)
           IN  d[2] >= 0 => ContentLen(ret.data) <= d[2]

====
